---- MODULE Spec2Model ----
(***************************************************************************)
(* Model of gdrive-mcp: the credential lifecycle (get_credentials), the     *)
(* protocol tools of server.py and the command-line tools gdrive_download   *)
(* and gdrive_recent.  Every handler is synchronous and single-threaded, so *)
(* one action models one whole invocation; the variables op .. fileWrites   *)
(* record what that invocation did (remote calls, payload, exit status).    *)
(***************************************************************************)
EXTENDS Integers, Sequences, FiniteSets, TLC

VARIABLES
    tokenFile,   \* token.json: <<>> when absent, else <<credential>>
    secrets,     \* client_secrets.json exists
    consented,   \* history: <<>>, or the credential the last completed consent
                 \* flow obtained and whether that flow began with no token file
    op,          \* the handler that ran in the last step
    args,        \* its inputs
    auth,        \* what get_credentials did in that invocation
    requests,    \* Drive requests issued in that invocation, in order
    result,      \* payload returned by a protocol tool (the JSON object)
    escaped,     \* exception leaving the handler, "" when none
    exitCode,    \* process exit status of a CLI tool, -1 when not a CLI run
    stdout,      \* lines a CLI tool printed, in order: <<message, values...>>
    fileWrites   \* output files written by the invocation: <<[path, data]>>

vars == <<tokenFile, secrets, consented, op, args, auth, requests, result,
          escaped, exitCode, stdout, fileWrites>>

-----------------------------------------------------------------------------
(* Bounds of the model *)

MaxItems == 2       \* length of the short Drive listings
BigListing == 150   \* length of the one long Drive listing
MaxChunks == 2      \* chunks (one byte each) a media download may take

-----------------------------------------------------------------------------
(* Content-type tags.  A tag is kept as <<type, vendor prefix, name>> so    *)
(* that the code's startswith tests are computed on the tag itself:         *)
(* "application/vnd.google-apps.document" is                                *)
(* <<"application", "vnd.google-apps.", "document">>, "text/csv" is         *)
(* <<"text", "", "csv">>.                                                   *)

GA(n) == <<"application", "vnd.google-apps.", n>>
MT(t, s) == <<t, "", s>>

FOLDER_TAG == GA("folder")

StartsWithGoogleApps(mime_type) ==
    mime_type[1] = "application" /\ mime_type[2] = "vnd.google-apps."

StartsWithText(mime_type) == mime_type[1] = "text"

\* Tags of the files the modelled Drive holds.
FileTags ==
    { GA("document"), GA("spreadsheet"), GA("presentation"), GA("drawing"),
      GA("form"), FOLDER_TAG,
      MT("text", "plain"), MT("application", "json"), MT("application", "pdf") }

\* Tags of the items of the modelled listings.
ListTags == { FOLDER_TAG, GA("document"), MT("application", "pdf") }

-----------------------------------------------------------------------------
(* Credentials *)

\* token: an access token is present; expired: its expiry has passed;
\* refresh_token: a refresh token is present.  get_credentials only ever
\* writes credentials that hold an access token.
Creds == [token : {TRUE}, expired : BOOLEAN, refresh_token : BOOLEAN]

\* google.oauth2.credentials.Credentials.valid: a token that has not expired
valid(c) == c.token /\ ~c.expired

NoAuth == [outcome |-> "none", creds |-> <<>>, tokenFile |-> <<>>,
           refreshCalls |-> 0, flowRuns |-> 0, tokenWrites |-> 0]

\* What the provider and the user do during one get_credentials call:
\* refreshOk: the provider accepts the refresh; flowOk: the consent flow
\* completes; flowRefresh: the consent grants a refresh token.  Only the
\* answers the call can ask for are enumerated.
AuthEnv(tf, sec) ==
    IF tf # <<>> /\ valid(tf[1])
    THEN [refreshOk : {TRUE}, flowOk : {TRUE}, flowRefresh : {TRUE}]
    ELSE IF tf # <<>> /\ tf[1].expired /\ tf[1].refresh_token
    THEN [refreshOk : BOOLEAN, flowOk : {TRUE}, flowRefresh : {TRUE}]
    ELSE IF ~sec
    THEN [refreshOk : {TRUE}, flowOk : {TRUE}, flowRefresh : {TRUE}]
    ELSE [refreshOk : {TRUE}, flowOk : {TRUE}, flowRefresh : BOOLEAN]
             \cup [refreshOk : {TRUE}, flowOk : {FALSE}, flowRefresh : {TRUE}]

\* Mutant: the validity test lost its negation.
needs_login_inverted(creds) == creds = <<>> \/ valid(creds[1])

\* if not creds or not creds.valid
needs_login(creds) == creds = <<>> \/ ~valid(creds[1])

\* if creds and creds.expired and creds.refresh_token
can_refresh(creds) ==
    creds # <<>> /\ creds[1].expired /\ creds[1].refresh_token

\* Mutant: the existence check is skipped.
secrets_missing_unchecked(sec) == FALSE

\* if not CLIENT_SECRETS_FILE.exists()
secrets_missing(sec) == ~sec

\* Mutant: the credential is never written.
save_token_skipped(tf, c) == tf

\* Mutant: the file is patched, not overwritten: the expiry it held stays.
save_token_patched(tf, c) ==
    IF tf = <<>> THEN <<c>> ELSE <<[c EXCEPT !.expired = tf[1].expired]>>

\* with open(TOKEN_FILE, 'w') as token: token.write(creds.to_json())
\* The file holds the serialized credential and nothing of what it held.
save_token(tf, c) == <<c>>

get_credentials(tf, sec, env) ==
    LET creds == tf    \* creds = None when TOKEN_FILE does not exist
        base == [outcome |-> "ok", creds |-> creds, tokenFile |-> tf,
                 refreshCalls |-> 0, flowRuns |-> 0, tokenWrites |-> 0]
    IN  IF needs_login(creds)
        THEN IF can_refresh(creds)
             THEN IF env.refreshOk
                  THEN LET c == [creds[1] EXCEPT !.token = TRUE,
                                                 !.expired = FALSE]
                       IN  [base EXCEPT !.creds = <<c>>,
                                        !.tokenFile = save_token(tf, c),
                                        !.refreshCalls = 1, !.tokenWrites = 1]
                  ELSE [base EXCEPT !.outcome = "RefreshError", !.creds = <<>>,
                                    !.refreshCalls = 1]
             ELSE IF secrets_missing(sec)
                  THEN [base EXCEPT !.outcome = "FileNotFoundError",
                                    !.creds = <<>>]
                  ELSE IF env.flowOk
                       THEN LET c == [token |-> TRUE, expired |-> FALSE,
                                      refresh_token |-> env.flowRefresh]
                            IN  [base EXCEPT !.creds = <<c>>,
                                             !.tokenFile = save_token(tf, c),
                                             !.flowRuns = 1, !.tokenWrites = 1]
                       ELSE [base EXCEPT !.outcome = "FlowError",
                                         !.creds = <<>>, !.flowRuns = 1]
        ELSE base

-----------------------------------------------------------------------------
(* The Drive provider, as the handlers see it *)

\* How a remote call can fail: an HTTP error status (HttpError) or a
\* transport failure below it (no HttpError, still an Exception).
RemoteErrors == {"HttpError", "TransportError"}
Outcomes == {""} \cup RemoteErrors

IsHttpError(e) == e = "HttpError"

\* Python's class tree: everything the model raises except SystemExit
\* derives from Exception.
IsException(e) ==
    e \in {"HttpError", "TransportError", "RefreshError", "FlowError",
           "FileNotFoundError"}

Min(a, b) == IF a <= b THEN a ELSE b

Items(tags) == [i \in 1..Len(tags) |-> [id |-> i, mimeType |-> tags[i]]]

BigTags ==
    [i \in 1..BigListing |->
        IF i % 3 = 0 THEN FOLDER_TAG
        ELSE IF i % 3 = 1 THEN GA("document") ELSE MT("application", "pdf")]

\* The files that match a query, in the provider's order.
Listings ==
    { Items(t) : t \in UNION { [1..n -> ListTags] : n \in 0..MaxItems } }
        \cup { Items(BigTags) }

\* files().list(pageSize = n).execute(): at most n items of the matching
\* files.
files_list(listing, pageSize, err) ==
    IF err # "" THEN [raised |-> err, files |-> <<>>]
    ELSE [raised |-> "",
          files |-> SubSeq(listing, 1, Min(pageSize, Len(listing)))]

\* The chunks a media request delivers, one byte each: "A" (65) at the odd
\* positions, a byte that is not valid UTF-8 (255) at the even ones.
DataOf(n) == [i \in 1..n |-> IF i % 2 = 1 THEN 65 ELSE 255]

\* An empty body, and one of MaxChunks chunks.
ChunkSeqs == { DataOf(0), DataOf(MaxChunks) }

\* next_chunk is called once per chunk, and once for an empty body.
ChunkCalls(chunks) == IF Len(chunks) = 0 THEN 1 ELSE Len(chunks)

\* Which next_chunk call fails, and how; at = 0: none does.
ChunkFails(chunks, errs) ==
    { [at |-> 0, err |-> ""] } \cup [at : 1..ChunkCalls(chunks), err : errs]

\* Mutant: the loop stops after its first next_chunk call.
chunk_loop_single(chunks, fail, i, fh) ==
    IF fail.at = 1
    THEN [raised |-> fail.err, fh |-> fh, calls |-> 1]
    ELSE [raised |-> "",
          fh |-> IF Len(chunks) >= 1 THEN Append(fh, chunks[1]) ELSE fh,
          calls |-> 1]

\* while not done: _, done = downloader.next_chunk()
\* i next_chunk calls have returned and fh holds what they delivered.
RECURSIVE chunk_loop(_, _, _, _)
chunk_loop(chunks, fail, i, fh) ==
    LET k == i + 1
    IN  IF fail.at = k
        THEN [raised |-> fail.err, fh |-> fh, calls |-> k]
        ELSE LET fh2 == IF k <= Len(chunks) THEN Append(fh, chunks[k]) ELSE fh
                 done == k >= Len(chunks)
             IN  IF done THEN [raised |-> "", fh |-> fh2, calls |-> k]
                 ELSE chunk_loop(chunks, fail, k, fh2)

\* bytes.decode('utf-8', errors='replace') on Bytes: an undecodable byte
\* becomes U+FFFD.
decode_replace(bs) ==
    [i \in 1..Len(bs) |-> IF bs[i] < 128 THEN bs[i] ELSE 65533]

-----------------------------------------------------------------------------
(* server.py: the protocol tools *)

EXPORT_MIME_TYPES ==
    (GA("document") :> "text/plain") @@ (GA("spreadsheet") :> "text/csv") @@
    (GA("presentation") :> "text/plain") @@ (GA("drawing") :> "image/png")

PAGE_CAP == 100

NoResult == [none |-> TRUE]

\* Mutant: only the HttpError clause is present.
except_http_only(raised, payload) ==
    IF raised = "" THEN [result |-> payload, escaped |-> ""]
    ELSE IF raised = "HttpError"
         THEN [result |-> [error |-> raised], escaped |-> ""]
         ELSE [result |-> [none |-> TRUE], escaped |-> raised]

\* except HttpError as error: ... / except Exception as e: ...
except_clauses(raised, payload) ==
    IF raised = "" THEN [result |-> payload, escaped |-> ""]
    ELSE IF IsHttpError(raised)
         THEN [result |-> [error |-> raised], escaped |-> ""]
         ELSE IF IsException(raised)
              THEN [result |-> [error |-> raised], escaped |-> ""]
              ELSE [result |-> NoResult, escaped |-> raised]

\* for item in items: output.append({...})
format_items(items) ==
    [i \in 1..Len(items) |->
        [id |-> items[i].id, mimeType |-> items[i].mimeType]]

\* Mutant: the cap is not applied.
cap_results_uncapped(max_results) == max_results

\* max_results = min(max_results, 100)
cap_results(max_results) == Min(max_results, PAGE_CAP)

\* A files().list request and the items the provider answered with.
ListRequest(orderBy, pageSize, resp) ==
    [api |-> "files.list", orderBy |-> orderBy, pageSize |-> pageSize,
     status |-> resp.raised, items |-> resp.files]

search_drive(tf, sec, max_results, ae, de) ==
    LET a == get_credentials(tf, sec, ae)
        pageSize == cap_results(max_results)
        resp == files_list(de.listing, pageSize, de.err)
        req == ListRequest("modifiedTime desc", pageSize, resp)
        items == resp.files
    IN  IF a.outcome # "ok"
        THEN [auth |-> a, requests |-> <<>>, raised |-> a.outcome,
              payload |-> NoResult]
        ELSE IF resp.raised # ""
        THEN [auth |-> a, requests |-> <<req>>, raised |-> resp.raised,
              payload |-> NoResult]
        ELSE IF items = <<>>
        THEN [auth |-> a, requests |-> <<req>>, raised |-> "",
              payload |-> [message |-> "No files found", files |-> <<>>]]
        ELSE [auth |-> a, requests |-> <<req>>, raised |-> "",
              payload |-> [count |-> Len(format_items(items)),
                           files |-> format_items(items)]]

list_recent_files(tf, sec, hours, max_results, ae, de) ==
    LET a == get_credentials(tf, sec, ae)
        pageSize == cap_results(max_results)
        resp == files_list(de.listing, pageSize, de.err)
        req == ListRequest("modifiedTime desc", pageSize, resp)
        items == resp.files
    IN  IF a.outcome # "ok"
        THEN [auth |-> a, requests |-> <<>>, raised |-> a.outcome,
              payload |-> NoResult]
        ELSE IF resp.raised # ""
        THEN [auth |-> a, requests |-> <<req>>, raised |-> resp.raised,
              payload |-> NoResult]
        ELSE IF items = <<>>
        THEN [auth |-> a, requests |-> <<req>>, raised |-> "",
              payload |-> [message |-> "No files modified", files |-> <<>>]]
        ELSE [auth |-> a, requests |-> <<req>>, raised |-> "",
              payload |-> [hours |-> hours,
                           count |-> Len(format_items(items)),
                           files |-> format_items(items)]]

\* Mutant: every workspace-native item is taken for a folder.
is_folder_any_native(entry) == StartsWithGoogleApps(entry.mimeType)

\* if item.get('mimeType') == 'application/vnd.google-apps.folder'
is_folder(entry) == entry.mimeType = FOLDER_TAG

is_file(entry) == ~is_folder(entry)

\* for item in items: entry = {...}; folders.append(entry) if the item is a
\* folder, else files.append(entry).  Each list receives its entries in the
\* order of the loop.
partition(items) ==
    [folders |-> SelectSeq(format_items(items), is_folder),
     files |-> SelectSeq(format_items(items), is_file)]

list_folder_contents(tf, sec, max_results, ae, de) ==
    LET a == get_credentials(tf, sec, ae)
        pageSize == cap_results(max_results)
        resp == files_list(de.listing, pageSize, de.err)
        req == ListRequest("folder,name", pageSize, resp)
        p == partition(resp.files)
    IN  IF a.outcome # "ok"
        THEN [auth |-> a, requests |-> <<>>, raised |-> a.outcome,
              payload |-> NoResult]
        ELSE IF resp.raised # ""
        THEN [auth |-> a, requests |-> <<req>>, raised |-> resp.raised,
              payload |-> NoResult]
        ELSE [auth |-> a, requests |-> <<req>>, raised |-> "",
              payload |-> [folder_count |-> Len(p.folders),
                           file_count |-> Len(p.files),
                           folders |-> p.folders, files |-> p.files]]

\* A file of the modelled Drive: its tag and the bytes an export or a
\* media download of it delivers.  name and webViewLink are fixed.
DriveFiles == [mimeType : FileTags, data : ChunkSeqs]

\* A files().get request and the metadata the provider answered with.
GetRequest(file, err) ==
    IF err # "" THEN [api |-> "files.get", status |-> err]
    ELSE [api |-> "files.get", status |-> "", mimeType |-> file.mimeType,
          size |-> Len(file.data)]

\* Mutant: only documents are exported.
needs_export_documents_only(mime_type) == mime_type = GA("document")

\* if mime_type in EXPORT_MIME_TYPES
needs_export(mime_type) == mime_type \in DOMAIN EXPORT_MIME_TYPES

\* Mutant: every application/* tag is fetched as text.
is_text_like_any_application(mime_type) ==
    StartsWithText(mime_type) \/ mime_type[1] = "application"

\* elif mime_type.startswith('text/') or mime_type == 'application/json'
is_text_like(mime_type) ==
    StartsWithText(mime_type) \/ mime_type = MT("application", "json")

get_file_content(tf, sec, ae, de) ==
    LET a == get_credentials(tf, sec, ae)
        getReq == GetRequest(de.file, de.err)
        mime_type == de.file.mimeType
        file_name == "report"
        dl == chunk_loop(de.file.data, de.fail, 0, <<>>)
        content == decode_replace(dl.fh)
    IN  IF a.outcome # "ok"
        THEN [auth |-> a, requests |-> <<>>, raised |-> a.outcome,
              payload |-> NoResult]
        ELSE IF de.err # ""
        THEN [auth |-> a, requests |-> <<getReq>>, raised |-> de.err,
              payload |-> NoResult]
        ELSE IF needs_export(mime_type)
        THEN LET export_mime == EXPORT_MIME_TYPES[mime_type]
                 req == [api |-> "files.export_media", status |-> dl.raised,
                         mimeType |-> export_mime, chunks |-> dl.calls]
             IN  IF dl.raised # ""
                 THEN [auth |-> a, requests |-> <<getReq, req>>,
                       raised |-> dl.raised, payload |-> NoResult]
                 ELSE [auth |-> a, requests |-> <<getReq, req>>,
                       raised |-> "",
                       payload |-> [name |-> file_name,
                                    mimeType |-> mime_type,
                                    exportedAs |-> export_mime,
                                    content |-> content]]
        ELSE IF is_text_like(mime_type)
        THEN LET req == [api |-> "files.get_media", status |-> dl.raised,
                         chunks |-> dl.calls]
             IN  IF dl.raised # ""
                 THEN [auth |-> a, requests |-> <<getReq, req>>,
                       raised |-> dl.raised, payload |-> NoResult]
                 ELSE [auth |-> a, requests |-> <<getReq, req>>,
                       raised |-> "",
                       payload |-> [name |-> file_name,
                                    mimeType |-> mime_type,
                                    content |-> content]]
        ELSE [auth |-> a, requests |-> <<getReq>>, raised |-> "",
              payload |-> [name |-> file_name, mimeType |-> mime_type,
                           size |-> Len(de.file.data),
                           webViewLink |-> "link",
                           note |-> "Binary file - content not extracted"]]

\* The owners a metadata response may list.
OwnerLists ==
    { <<>>, <<[displayName |-> "Ann", emailAddress |-> "ann@x"]>>,
      <<[emailAddress |-> "ann@x"]>>, <<[kind |-> "user"]>> }

\* o.get('displayName', o.get('emailAddress', 'Unknown'))
owner_name(o) ==
    IF "displayName" \in DOMAIN o THEN o.displayName
    ELSE IF "emailAddress" \in DOMAIN o THEN o.emailAddress ELSE "Unknown"

get_file_metadata(tf, sec, ae, de) ==
    LET a == get_credentials(tf, sec, ae)
        getReq == GetRequest(de.file, de.err)
    IN  IF a.outcome # "ok"
        THEN [auth |-> a, requests |-> <<>>, raised |-> a.outcome,
              payload |-> NoResult]
        ELSE IF de.err # ""
        THEN [auth |-> a, requests |-> <<getReq>>, raised |-> de.err,
              payload |-> NoResult]
        ELSE [auth |-> a, requests |-> <<getReq>>, raised |-> "",
              payload |-> [name |-> "report",
                           mimeType |-> de.file.mimeType,
                           size |-> Len(de.file.data),
                           owners |-> [i \in 1..Len(de.owners) |->
                                          owner_name(de.owners[i])]]]

-----------------------------------------------------------------------------
(* _tools/gdrive_download.py *)

\* Each export table in its declared (iteration) order: <<format, extension>>.
DL_EXPORT_MIME_TYPES ==
    (GA("document") :>
        << <<"text/plain", ".txt">>,
           <<"application/vnd.openxmlformats-officedocument.wordprocessingml.document", ".docx">>,
           <<"application/pdf", ".pdf">>,
           <<"text/html", ".html">> >>) @@
    (GA("spreadsheet") :>
        << <<"application/vnd.openxmlformats-officedocument.spreadsheetml.sheet", ".xlsx">>,
           <<"text/csv", ".csv">>,
           <<"application/pdf", ".pdf">> >>) @@
    (GA("presentation") :>
        << <<"application/vnd.openxmlformats-officedocument.presentationml.presentation", ".pptx">>,
           <<"application/pdf", ".pdf">>,
           <<"text/plain", ".txt">> >>) @@
    (GA("drawing") :>
        << <<"image/png", ".png">>,
           <<"image/jpeg", ".jpg">>,
           <<"application/pdf", ".pdf">> >>)

\* EXPORT_MIME_TYPES.get(mime_type, {})
export_options_of(mime_type) ==
    IF mime_type \in DOMAIN DL_EXPORT_MIME_TYPES
    THEN DL_EXPORT_MIME_TYPES[mime_type] ELSE <<>>

\* export_options.keys()
Keys(export_options) ==
    [i \in 1..Len(export_options) |-> export_options[i][1]]

KeySet(export_options) ==
    { export_options[i][1] : i \in 1..Len(export_options) }

\* export_options[export_mime], for a format the table holds
ExtensionOf(export_options, export_mime) ==
    export_options[CHOOSE i \in 1..Len(export_options) :
                       export_options[i][1] = export_mime][2]

\* Mutant: the requested format is not validated.
format_rejected_never(export_format, export_options) == FALSE

\* if export_format not in export_options
format_rejected(export_format, export_options) ==
    export_format[1] \notin KeySet(export_options)

\* export_format is None (<<>>) or a string (<<s>>); Python's truth test
\* 'if export_format:' fails for None and for the empty string.
Truthy(export_format) == export_format # <<>> /\ export_format[1] # ""

\* Mutant: the default is always the first option.
default_export_first(export_options) == Keys(export_options)[1]

\* Default: use text/plain if available, otherwise first option
default_export(export_options) ==
    IF "text/plain" \in KeySet(export_options) THEN "text/plain"
    ELSE Keys(export_options)[1]

\* The output file: output_path / (file_name + extension) in a directory,
\* output_path itself otherwise.
output_file_of(output_is_dir, file_name, extension) ==
    IF output_is_dir
    THEN IF extension # "" THEN <<"outdir", file_name, extension>>
         ELSE <<"outdir", file_name, "">>
    ELSE <<"outpath">>

\* the status lines of the chunk loop: one per next_chunk call that returned
progress_lines(n) == [i \in 1..n |-> <<"Download progress">>]

download_file(file_name, mime_type, output_is_dir, export_format, data, fail) ==
    LET export_options == export_options_of(mime_type)
        native == StartsWithGoogleApps(mime_type)
        export_mime == IF Truthy(export_format) THEN export_format[1]
                       ELSE default_export(export_options)
        extension == IF native THEN ExtensionOf(export_options, export_mime)
                     ELSE ""
        dl == chunk_loop(data, fail, 0, <<>>)
        \* body: the bytes the provider holds for the request; chunks: the
        \* next_chunk calls made
        request == IF native
                   THEN [api |-> "files.export_media", status |-> dl.raised,
                         mimeType |-> export_mime, body |-> data,
                         chunks |-> dl.calls]
                   ELSE [api |-> "files.get_media", status |-> dl.raised,
                         body |-> data, chunks |-> dl.calls]
        announce == IF native THEN <<"Exporting", export_mime>>
                    ELSE <<"Downloading">>
        output_file == output_file_of(output_is_dir, file_name, extension)
        none == [requests |-> <<>>, stdout |-> <<>>, fileWrites |-> <<>>,
                 success |-> FALSE, raised |-> ""]
    IN  IF native /\ export_options = <<>>
        THEN [none EXCEPT !.stdout = << <<"Error: No export format available">> >>]
        ELSE IF native /\ Truthy(export_format)
                /\ format_rejected(export_format, export_options)
        THEN [none EXCEPT !.stdout =
                 << <<"Error: Export format not available">>,
                   <<"Available formats">> \o Keys(export_options)>>]
        ELSE IF native /\ export_mime \notin KeySet(export_options)
        THEN \* export_options[export_mime] raises KeyError
             [none EXCEPT !.raised = "KeyError"]
        ELSE IF dl.raised # "" /\ IsHttpError(dl.raised)
        THEN [none EXCEPT !.requests = <<request>>,
                          !.stdout = <<announce>>
                              \o progress_lines(dl.calls - 1)
                              \o << <<"An error occurred">> >>]
        ELSE IF dl.raised # ""
        THEN [none EXCEPT !.requests = <<request>>,
                          !.stdout = <<announce>>
                              \o progress_lines(dl.calls - 1),
                          !.raised = dl.raised]
        ELSE [requests |-> <<request>>,
              stdout |-> <<announce>> \o progress_lines(dl.calls)
                             \o << <<"File saved">> >>,
              fileWrites |-> <<[path |-> output_file, data |-> dl.fh]>>,
              success |-> TRUE, raised |-> ""]

\* get_credentials of gdrive_download.py: the server's, except that a
\* missing client_secrets.json prints the setup error and calls sys.exit(1).
dl_get_credentials(tf, sec, ae) ==
    LET r == get_credentials(tf, sec, ae)
    IN  IF r.outcome = "FileNotFoundError"
        THEN [r EXCEPT !.outcome = "SystemExit"] ELSE r

\* What a CLI run leaves behind when get_credentials does not return.
cli_auth_failure(a) ==
    IF a.outcome = "SystemExit"
    THEN [auth |-> a, requests |-> <<>>,
          stdout |-> << <<"Error: client_secrets.json not found">> >>,
          fileWrites |-> <<>>, escaped |-> "", exitCode |-> 1]
    ELSE [auth |-> a, requests |-> <<>>, stdout |-> <<>>,
          fileWrites |-> <<>>, escaped |-> a.outcome, exitCode |-> 1]

\* find_file_by_name: the first match, <<>> for None
find_file_by_name(matches, err) ==
    IF err # "" /\ IsHttpError(err)
    THEN [found |-> <<>>, stdout |-> << <<"An error occurred while searching">> >>,
          raised |-> ""]
    ELSE IF err # "" THEN [found |-> <<>>, stdout |-> <<>>, raised |-> err]
    ELSE IF matches = <<>>
    THEN [found |-> <<>>, stdout |-> <<>>, raised |-> ""]
    ELSE IF Len(matches) > 1
    THEN [found |-> <<matches[1]>>,
          stdout |-> << <<"Warning: Multiple files found">> >>,
          raised |-> ""]
    ELSE [found |-> <<matches[1]>>, stdout |-> <<>>, raised |-> ""]

\* main() of gdrive_download.py.  in: by_id, output_is_dir, format;
\* de: the provider's answers (matches, err for the lookup, fail for the
\* chunk reads).
download_main(tf, sec, in, ae, de) ==
    LET a == dl_get_credentials(tf, sec, ae)
        base == [auth |-> a, requests |-> <<>>, stdout |-> <<>>,
                 fileWrites |-> <<>>, escaped |-> "", exitCode |-> 0]
        byName == find_file_by_name(de.matches, de.err)
        file_info == IF in.by_id
                     THEN (IF de.err = "" THEN <<de.matches[1]>> ELSE <<>>)
                     ELSE byName.found
        lookupReq == [api |-> IF in.by_id THEN "files.get" ELSE "files.list",
                      status |-> de.err,
                      found |-> [i \in 1..Len(file_info) |->
                                    file_info[i].mimeType]]
        d == download_file("report", file_info[1].mimeType, in.output_is_dir,
                           in.format, file_info[1].data, de.fail)
    IN  IF a.outcome # "ok" THEN cli_auth_failure(a)
        ELSE IF in.by_id /\ de.err # "" /\ IsHttpError(de.err)
        THEN [base EXCEPT !.requests = <<lookupReq>>,
                          !.stdout = << <<"Error getting file">> >>,
                          !.exitCode = 1]
        ELSE IF in.by_id /\ de.err # ""
        THEN [base EXCEPT !.requests = <<lookupReq>>, !.escaped = de.err,
                          !.exitCode = 1]
        ELSE IF ~in.by_id /\ byName.raised # ""
        THEN [base EXCEPT !.requests = <<lookupReq>>,
                          !.escaped = byName.raised, !.exitCode = 1]
        ELSE IF ~in.by_id /\ byName.found = <<>>
        THEN [base EXCEPT !.requests = <<lookupReq>>,
                          !.stdout = byName.stdout
                              \o << <<"Error: File not found">> >>,
                          !.exitCode = 1]
        ELSE [auth |-> a,
              requests |-> <<lookupReq>> \o d.requests,
              stdout |-> (IF in.by_id THEN <<>> ELSE byName.stdout)
                             \o <<<<"Found file", file_info[1].mimeType>>>>
                             \o d.stdout,
              fileWrites |-> d.fileWrites,
              escaped |-> d.raised,
              exitCode |-> IF d.success THEN 0 ELSE 1]

-----------------------------------------------------------------------------
(* _tools/gdrive_recent.py *)

RECENT_PAGE_SIZE == 50

\* get_credentials of gdrive_recent.py: as in gdrive_download.py.
recent_get_credentials(tf, sec, ae) ==
    LET r == get_credentials(tf, sec, ae)
    IN  IF r.outcome = "FileNotFoundError"
        THEN [r EXCEPT !.outcome = "SystemExit"] ELSE r

\* get_recent_files(hours, mode, json_output), as main() calls it: argparse
\* admits only the modes 'edited' and 'viewed', which build the same query.
get_recent_files(tf, sec, in, ae, de) ==
    LET a == recent_get_credentials(tf, sec, ae)
        resp == files_list(de.listing, RECENT_PAGE_SIZE, de.err)
        req == ListRequest("modifiedTime desc", RECENT_PAGE_SIZE, resp)
        items == resp.files
        base == [auth |-> a, requests |-> <<req>>, stdout |-> <<>>,
                 fileWrites |-> <<>>, escaped |-> "", exitCode |-> 0]
    IN  IF a.outcome # "ok" THEN cli_auth_failure(a)
        ELSE IF resp.raised # "" /\ IsHttpError(resp.raised)
        THEN [base EXCEPT !.stdout = << <<"An error occurred">> >>,
                          !.exitCode = 1]
        ELSE IF resp.raised # ""
        THEN [base EXCEPT !.escaped = resp.raised, !.exitCode = 1]
        ELSE IF in.json_output
        THEN [base EXCEPT !.stdout = <<<<"json", format_items(items)>>>>]
        ELSE IF items = <<>>
        THEN [base EXCEPT !.stdout = <<<<"No files", in.mode>>>>]
        ELSE [base EXCEPT !.stdout = <<<<"Files", in.mode, Len(items)>>>>]

-----------------------------------------------------------------------------
(* The state machine *)

MaxResultsInputs == {1, 100, 150}
HoursInputs == {1, 24}

ServerOps == {"search_drive", "list_recent_files", "get_file_content",
              "get_file_metadata", "list_folder_contents"}

\* The provider's answers to one invocation's Drive calls.  S is the set of
\* answers the handler can meet; when get_credentials fails no Drive call is
\* made and one answer stands for all.
DriveEnv(a, S) == IF a.outcome = "ok" THEN S ELSE { CHOOSE x \in S : TRUE }

ListEnv ==
    [listing : Listings, err : {""}]
        \cup [listing : {<<>>}, err : RemoteErrors]

ContentEnv ==
    { [file |-> f, err |-> "", fail |-> x] :
        f \in DriveFiles, x \in ChunkFails(DataOf(MaxChunks), RemoteErrors) }
        \cup [file : {[mimeType |-> FOLDER_TAG, data |-> <<>>]},
              err : RemoteErrors, fail : {[at |-> 0, err |-> ""]}]

MetadataEnv ==
    [file : {f \in DriveFiles : Len(f.data) = MaxChunks}, err : {""},
     owners : OwnerLists]
        \cup [file : {[mimeType |-> FOLDER_TAG, data |-> <<>>]},
              err : RemoteErrors, owners : {<<>>}]

Init ==
    /\ tokenFile \in {<<>>} \cup { <<c>> : c \in Creds }
    /\ secrets \in BOOLEAN
    /\ consented = <<>>
    /\ op = "init"
    /\ args = [none |-> TRUE]
    /\ auth = NoAuth
    /\ requests = <<>>
    /\ result = NoResult
    /\ escaped = ""
    /\ exitCode = -1
    /\ stdout = <<>>
    /\ fileWrites = <<>>

\* Time passes: the stored access token reaches its expiry.
Expire ==
    /\ tokenFile # <<>>
    /\ ~tokenFile[1].expired
    /\ tokenFile' = <<[tokenFile[1] EXCEPT !.expired = TRUE]>>
    /\ op' = "expire"
    /\ args' = [none |-> TRUE]
    /\ auth' = NoAuth
    /\ requests' = <<>>
    /\ result' = NoResult
    /\ escaped' = ""
    /\ exitCode' = -1
    /\ stdout' = <<>>
    /\ fileWrites' = <<>>
    /\ UNCHANGED <<secrets, consented>>

\* The credential part of every invocation: the token file as
\* get_credentials left it, and the history of the consent flow.
AuthStep(a) ==
    /\ tokenFile' = a.tokenFile
    /\ consented' = IF a.flowRuns = 1 /\ a.outcome = "ok"
                    THEN <<[creds |-> a.creds[1], first |-> tokenFile = <<>>]>>
                    ELSE consented
    /\ auth' = a
    /\ UNCHANGED secrets

\* A protocol tool ran: r is what its body did, the except clauses turn
\* what it raised into the payload.
ServerStep(name, a, r) ==
    LET t == except_clauses(r.raised, r.payload)
    IN  /\ AuthStep(r.auth)
        /\ op' = name
        /\ args' = a
        /\ requests' = r.requests
        /\ result' = t.result
        /\ escaped' = t.escaped
        /\ exitCode' = -1
        /\ stdout' = <<>>
        /\ fileWrites' = <<>>

SearchDrive ==
    \E m \in MaxResultsInputs, ae \in AuthEnv(tokenFile, secrets) :
    \E de \in DriveEnv(get_credentials(tokenFile, secrets, ae), ListEnv) :
        ServerStep("search_drive", [max_results |-> m],
                   search_drive(tokenFile, secrets, m, ae, de))

ListRecentFiles ==
    \E m \in MaxResultsInputs, h \in HoursInputs :
    \E ae \in AuthEnv(tokenFile, secrets) :
    \E de \in DriveEnv(get_credentials(tokenFile, secrets, ae), ListEnv) :
        ServerStep("list_recent_files", [hours |-> h, max_results |-> m],
                   list_recent_files(tokenFile, secrets, h, m, ae, de))

ListFolderContents ==
    \E m \in MaxResultsInputs, ae \in AuthEnv(tokenFile, secrets) :
    \E de \in DriveEnv(get_credentials(tokenFile, secrets, ae), ListEnv) :
        ServerStep("list_folder_contents", [max_results |-> m],
                   list_folder_contents(tokenFile, secrets, m, ae, de))

GetFileContent ==
    \E ae \in AuthEnv(tokenFile, secrets) :
    \E de \in DriveEnv(get_credentials(tokenFile, secrets, ae), ContentEnv) :
        ServerStep("get_file_content", [none |-> TRUE],
                   get_file_content(tokenFile, secrets, ae, de))

GetFileMetadata ==
    \E ae \in AuthEnv(tokenFile, secrets) :
    \E de \in DriveEnv(get_credentials(tokenFile, secrets, ae), MetadataEnv) :
        ServerStep("get_file_metadata", [none |-> TRUE],
                   get_file_metadata(tokenFile, secrets, ae, de))

\* Files of the Drive the download tool is pointed at.
DlTags == { GA("document"), GA("spreadsheet"), GA("presentation"),
            GA("drawing"), GA("form"), MT("application", "pdf") }

DlFiles == [mimeType : DlTags, data : ChunkSeqs]

FormatInputs == { <<>>, <<"text/plain">> }

DownloadInputs ==
    [by_id : BOOLEAN, output_is_dir : BOOLEAN, format : FormatInputs]

\* Two files that share a name: the lookup by name uses the first.
Homonyms ==
    << [mimeType |-> GA("document"), data |-> DataOf(MaxChunks)],
       [mimeType |-> MT("application", "pdf"), data |-> DataOf(0)] >>

\* by id the provider answers with the file or an error; by name with the
\* matching files (none, one, or the two homonyms) or an error.
DownloadEnv(in) ==
    { [matches |-> <<f>>, err |-> "", fail |-> x] :
        f \in DlFiles, x \in ChunkFails(DataOf(MaxChunks), {"HttpError"}) }
        \cup (IF in.by_id THEN {}
              ELSE { [matches |-> Homonyms, err |-> "",
                      fail |-> [at |-> 0, err |-> ""]] })
        \cup [matches : {<<>>},
              err : IF in.by_id THEN RemoteErrors ELSE Outcomes,
              fail : {[at |-> 0, err |-> ""]}]

RecentInputs == [mode : {"edited", "viewed"}, json_output : BOOLEAN]

\* A command-line tool ran to its exit.
CliStep(name, a, r) ==
    /\ AuthStep(r.auth)
    /\ op' = name
    /\ args' = a
    /\ requests' = r.requests
    /\ result' = NoResult
    /\ escaped' = r.escaped
    /\ exitCode' = r.exitCode
    /\ stdout' = r.stdout
    /\ fileWrites' = r.fileWrites

DownloadMain ==
    \E in \in DownloadInputs, ae \in AuthEnv(tokenFile, secrets) :
    \E de \in DriveEnv(dl_get_credentials(tokenFile, secrets, ae),
                       DownloadEnv(in)) :
        CliStep("gdrive_download", in,
                download_main(tokenFile, secrets, in, ae, de))

RecentMain ==
    \E in \in RecentInputs, ae \in AuthEnv(tokenFile, secrets) :
    \E de \in DriveEnv(recent_get_credentials(tokenFile, secrets, ae),
                       ListEnv) :
        CliStep("gdrive_recent", in,
                get_recent_files(tokenFile, secrets, in, ae, de))

CliOps == {"gdrive_download", "gdrive_recent"}

NextServer ==
    \/ Expire
    \/ SearchDrive
    \/ ListRecentFiles
    \/ ListFolderContents
    \/ GetFileContent
    \/ GetFileMetadata

SpecServer == Init /\ [][NextServer]_vars

NextCli ==
    \/ Expire
    \/ DownloadMain
    \/ RecentMain

SpecCli == Init /\ [][NextCli]_vars

\* One entry point of each of the three programs.
NextSetup ==
    \/ Expire
    \/ GetFileMetadata
    \/ DownloadMain
    \/ RecentMain

SpecSetup == Init /\ [][NextSetup]_vars

\* The two entry points that retrieve content.
NextContent ==
    \/ Expire
    \/ GetFileContent
    \/ DownloadMain

SpecContent == Init /\ [][NextContent]_vars

Next == NextServer \/ DownloadMain \/ RecentMain

Spec == Init /\ [][Next]_vars

-----------------------------------------------------------------------------
(* Properties *)

\* A remote call of the last invocation failed: the token refresh, the
\* consent flow, or a Drive request.
RemoteCallFailed ==
    \/ auth.outcome \in {"RefreshError", "FlowError"}
    \/ \E i \in 1..Len(requests) : requests[i].status # ""

IsJsonObject(r) == "none" \notin DOMAIN r

\* C1: every protocol tool returns a JSON object and lets no exception
\* escape; when a remote call of the invocation failed, the object has an
\* "error" key.
C1_ToolsReturnJson ==
    op \in ServerOps =>
        /\ escaped = ""
        /\ IsJsonObject(result)
        /\ (RemoteCallFailed => "error" \in DOMAIN result)

\* C1 witness: each of the five tools is checked by the invariant; here a
\* chunk read of get_file_content failed below HTTP and came back as an
\* error payload.
C1_Witness ==
    /\ op = "get_file_content"
    /\ Len(requests) = 2
    /\ requests[2].status = "TransportError"
    /\ result = [error |-> "TransportError"]
    /\ escaped = ""

\* The tag files().get answered with in the last get_file_content call.
ContentTagKnown ==
    op = "get_file_content" /\ requests # <<>> /\ requests[1].status = ""

RequestApis == { requests[i].api : i \in 1..Len(requests) }

\* C2: for a tag of the export mapping get_file_content issues an export
\* with the mapping's target and no get_media; a success payload carries
\* exportedAs equal to that target (text/csv for a spreadsheet).
C2_MappedTagsAreExported ==
    (ContentTagKnown /\ requests[1].mimeType \in DOMAIN EXPORT_MIME_TYPES) =>
        LET target == EXPORT_MIME_TYPES[requests[1].mimeType]
        IN  /\ Len(requests) = 2
            /\ requests[2].api = "files.export_media"
            /\ requests[2].mimeType = target
            /\ "files.get_media" \notin RequestApis
            /\ ("error" \notin DOMAIN result =>
                    /\ "content" \in DOMAIN result
                    /\ result.exportedAs = target)
            /\ (requests[1].mimeType = GA("spreadsheet") =>
                    target = "text/csv")

C2_Witness ==
    /\ ContentTagKnown
    /\ requests[1].mimeType = GA("spreadsheet")
    /\ "exportedAs" \in DOMAIN result
    /\ result.exportedAs = "text/csv"
    /\ Len(result.content) = MaxChunks

\* C3: for a tag outside the export mapping that is neither text/* nor
\* application/json, get_file_content issues neither an export nor a
\* download and returns name, tag, size, view link and note, with no
\* content.
C3_OtherTagsMetadataOnly ==
    (/\ ContentTagKnown
     /\ requests[1].mimeType \notin DOMAIN EXPORT_MIME_TYPES
     /\ requests[1].mimeType[1] # "text"
     /\ requests[1].mimeType # MT("application", "json")) =>
        /\ Len(requests) = 1
        /\ DOMAIN result = {"name", "mimeType", "size", "webViewLink", "note"}
        /\ result.mimeType = requests[1].mimeType

C3_Witness ==
    /\ ContentTagKnown
    /\ requests[1].mimeType = MT("application", "pdf")
    /\ "note" \in DOMAIN result
    /\ result.size = MaxChunks

\* download_file was entered in the last gdrive_download run, for a file of
\* the tag requests[1].found[1].
DownloadEntered ==
    /\ op = "gdrive_download"
    /\ requests # <<>>
    /\ requests[1].status = ""
    /\ requests[1].found # <<>>

DownloadTag == requests[1].found[1]

\* What the default rule gives for each export table of gdrive_download.py.
DefaultChoice ==
    (GA("document") :> <<"text/plain", ".txt">>) @@
    (GA("spreadsheet") :>
        <<"application/vnd.openxmlformats-officedocument.spreadsheetml.sheet",
          ".xlsx">>) @@
    (GA("presentation") :> <<"text/plain", ".txt">>) @@
    (GA("drawing") :> <<"image/png", ".png">>)

\* C4: without an explicit format, download_file exports a workspace-native
\* file as text/plain when the tag's export table holds it and as the first
\* entry of the table otherwise, and names the file with the extension the
\* table gives for that format.
C4_DefaultExportFormat ==
    (/\ DownloadEntered
     /\ args.format = <<>>
     /\ DownloadTag \in DOMAIN DL_EXPORT_MIME_TYPES) =>
        LET table == DL_EXPORT_MIME_TYPES[DownloadTag]
            chosen == IF \E i \in 1..Len(table) : table[i][1] = "text/plain"
                      THEN "text/plain" ELSE table[1][1]
        IN  /\ Len(requests) = 2
            /\ requests[2].api = "files.export_media"
            /\ requests[2].mimeType = chosen
            /\ chosen = DefaultChoice[DownloadTag][1]
            /\ \A i \in 1..Len(fileWrites) :
                   args.output_is_dir =>
                       /\ fileWrites[i].path[3] = DefaultChoice[DownloadTag][2]
                       /\ <<chosen, fileWrites[i].path[3]>>
                              \in { table[j] : j \in 1..Len(table) }

\* C4 witness: a presentation, whose table holds text/plain but not first,
\* was saved as .txt in the output directory.
C4_Witness ==
    /\ DownloadEntered
    /\ args.format = <<>>
    /\ DownloadTag = GA("presentation")
    /\ exitCode = 0
    /\ Len(fileWrites) = 1
    /\ fileWrites[1].path = <<"outdir", "report", ".txt">>

\* C5: with an explicit format that the tag's export table does not hold,
\* download_file reports the table's formats and fails, the tool exits with
\* status 1, and no export or download request is issued and no file is
\* written.
C5_UnsupportedFormatFails ==
    (/\ DownloadEntered
     /\ args.format # <<>>
     /\ DownloadTag \in DOMAIN DL_EXPORT_MIME_TYPES
     /\ args.format[1] \notin
            { DL_EXPORT_MIME_TYPES[DownloadTag][i][1] :
                i \in 1..Len(DL_EXPORT_MIME_TYPES[DownloadTag]) }) =>
        /\ exitCode = 1
        /\ escaped = ""
        /\ Len(requests) = 1
        /\ fileWrites = <<>>
        /\ \E i \in 1..Len(stdout) :
               stdout[i] = <<"Available formats">>
                               \o Keys(DL_EXPORT_MIME_TYPES[DownloadTag])

C5_Witness ==
    /\ DownloadEntered
    /\ args.format = <<"text/plain">>
    /\ DownloadTag = GA("spreadsheet")
    /\ exitCode = 1
    /\ fileWrites = <<>>

\* The items files().list answered with in the last list_folder_contents.
FolderListed ==
    op = "list_folder_contents" /\ "folders" \in DOMAIN result

Increasing(entries) ==
    \A i, j \in 1..Len(entries) : i < j => entries[i].id < entries[j].id

\* C6: list_folder_contents puts exactly the items tagged as folder in
\* folders and the others in files, every returned item in one list and in
\* the provider's order (item ids are the provider's positions), and the
\* two counts add up to the number of returned items.
C6_FolderPartition ==
    FolderListed =>
        LET items == requests[1].items
        IN  /\ \A i \in 1..Len(result.folders) :
                   result.folders[i].mimeType = FOLDER_TAG
            /\ \A i \in 1..Len(result.files) :
                   result.files[i].mimeType # FOLDER_TAG
            /\ \A k \in 1..Len(items) :
                   Cardinality({ i \in 1..Len(result.folders) :
                                   result.folders[i] = items[k] })
                     + Cardinality({ i \in 1..Len(result.files) :
                                       result.files[i] = items[k] }) = 1
            /\ Increasing(result.folders)
            /\ Increasing(result.files)
            /\ result.folder_count = Len(result.folders)
            /\ result.file_count = Len(result.files)
            /\ result.folder_count + result.file_count = Len(items)

C6_Witness ==
    /\ FolderListed
    /\ result.folder_count >= 2
    /\ result.file_count >= 2
    /\ result.files[1].mimeType # result.files[2].mimeType

ListingOps == {"search_drive", "list_recent_files", "list_folder_contents"}

ReturnedCount ==
    IF "folders" \in DOMAIN result
    THEN Len(result.folders) + Len(result.files)
    ELSE IF "files" \in DOMAIN result THEN Len(result.files) ELSE 0

\* C7: the listing tools ask for a page of at most 100 items, whatever
\* max_results is, and return at most 100 items.
C7_PageSizeCapped ==
    (op \in ListingOps /\ requests # <<>>) =>
        /\ requests[1].pageSize <= 100
        /\ requests[1].pageSize <= args.max_results
        /\ Len(requests[1].items) <= 100
        /\ ReturnedCount <= 100

C7_Witness ==
    /\ op = "search_drive"
    /\ args.max_results = 150
    /\ requests # <<>>
    /\ requests[1].pageSize = 100
    /\ "count" \in DOMAIN result
    /\ result.count = 100

AllOps == ServerOps \cup CliOps

\* C8: a call of get_credentials that finds a valid credential in the
\* token file refreshes nothing, starts no consent flow, does not write the
\* token file and returns that credential; as a property of every step, it
\* holds for each of any number of calls in a row.
C8_ValidCredentialReused ==
    [][ (op' \in ServerOps /\ tokenFile # <<>> /\ valid(tokenFile[1])) =>
            /\ auth'.outcome = "ok"
            /\ auth'.refreshCalls = 0
            /\ auth'.flowRuns = 0
            /\ auth'.tokenWrites = 0
            /\ auth'.creds = tokenFile
            /\ tokenFile' = tokenFile ]_vars

\* C8 witness: a tool call served from the stored credential.
C8_Witness ==
    /\ op \in ServerOps
    /\ auth.outcome = "ok"
    /\ auth.refreshCalls = 0 /\ auth.flowRuns = 0 /\ auth.tokenWrites = 0
    /\ tokenFile # <<>>
    /\ auth.creds = tokenFile
    /\ "error" \notin DOMAIN result

\* C9: with no token file and the client registration present, a call
\* runs the consent flow and, the flow completed, writes the credential it
\* obtained to the token file; every later call that finds that credential
\* in the token file, still valid, runs no consent flow.
C9_ConsentOnceThenReuse ==
    [][ op' \in ServerOps =>
            /\ (tokenFile = <<>> /\ secrets) =>
                   /\ auth'.flowRuns = 1
                   /\ auth'.outcome \in {"ok", "FlowError"}
                   /\ (auth'.outcome = "ok" =>
                          /\ auth'.tokenWrites = 1
                          /\ valid(auth'.creds[1])
                          /\ tokenFile' = auth'.creds
                          /\ consented' = <<[creds |-> auth'.creds[1],
                                             first |-> TRUE]>>)
                   /\ (auth'.outcome = "FlowError" => tokenFile' = <<>>)
            /\ (/\ consented # <<>>
                /\ consented[1].first
                /\ tokenFile = <<consented[1].creds>>) =>
                   /\ auth'.flowRuns = 0
                   /\ auth'.outcome = "ok"
                   /\ auth'.creds = tokenFile
                   /\ tokenFile' = tokenFile ]_vars

\* C9 witness: a call after the first consent, served without a flow.
C9_Witness ==
    /\ op \in ServerOps
    /\ consented # <<>>
    /\ consented[1].first
    /\ tokenFile = <<consented[1].creds>>
    /\ auth.outcome = "ok"
    /\ auth.flowRuns = 0

\* C10: with no token file and no client_secrets.json, get_credentials
\* fails with the setup error (FileNotFoundError in the server, which the
\* tool reports; exit status 1 in the CLI tools), starts no consent flow
\* and leaves the token file absent.
C10_SetupErrorWithoutSecrets ==
    [][ (op' \in AllOps /\ tokenFile = <<>> /\ ~secrets) =>
            /\ auth'.flowRuns = 0
            /\ auth'.refreshCalls = 0
            /\ auth'.tokenWrites = 0
            /\ tokenFile' = <<>>
            /\ requests' = <<>>
            /\ (op' \in ServerOps =>
                   /\ auth'.outcome = "FileNotFoundError"
                   /\ result' = [error |-> "FileNotFoundError"])
            /\ (op' \in CliOps =>
                   /\ auth'.outcome = "SystemExit"
                   /\ exitCode' = 1
                   /\ escaped' = "") ]_vars

C10_Witness ==
    /\ op = "gdrive_download"
    /\ tokenFile = <<>>
    /\ ~secrets
    /\ auth.outcome = "SystemExit"
    /\ exitCode = 1
    /\ stdout = << <<"Error: client_secrets.json not found">> >>

\* C11: when the credential of the token file is expired and holds a
\* refresh token, and the client registration is present, a call never ends
\* with the refresh failure: either the refresh renewed the credential, or
\* (the refresh rejected, nothing renewed) the consent flow was started, and
\* a call that returns has the returned credential, valid, in the token
\* file.
C11_RefreshRejectionFallsBack ==
    [][ (op' \in AllOps /\ can_refresh(tokenFile) /\ secrets) =>
            /\ auth'.refreshCalls = 1
            /\ auth'.outcome # "RefreshError"
            /\ (auth'.flowRuns = 0 =>
                   /\ auth'.outcome = "ok"
                   /\ auth'.tokenWrites = 1)
            /\ (auth'.outcome = "ok" =>
                   /\ valid(auth'.creds[1])
                   /\ tokenFile' = auth'.creds) ]_vars

\* C12: a protocol tool never starts the consent flow; with no usable
\* credential (no token file, or one that is neither valid nor refreshable)
\* it reports the setup error.
C12_ServerNeverStartsFlow ==
    [][ op' \in ServerOps =>
            /\ auth'.flowRuns = 0
            /\ ((needs_login(tokenFile) /\ ~can_refresh(tokenFile)) =>
                   /\ auth'.outcome = "FileNotFoundError"
                   /\ result' = [error |-> "FileNotFoundError"]) ]_vars

\* The last call of get_credentials renewed the credential by a refresh /
\* obtained one by a completed consent flow.
Refreshed(a) == a.outcome = "ok" /\ a.refreshCalls = 1 /\ a.flowRuns = 0

Consented(a) == a.outcome = "ok" /\ a.flowRuns = 1

\* C13: a call of get_credentials writes the token file exactly when it
\* completed a refresh or a consent flow; the write replaces the whole
\* content by the credential obtained; after a call that returns, the token
\* file holds the returned credential; a call that fails (refresh rejected,
\* flow not completed, setup error) leaves the token file as it was.
C13_TokenFileWrittenOnRenewal ==
    [][ op' \in AllOps =>
            /\ auth'.tokenWrites \in {0, 1}
            /\ (auth'.tokenWrites = 1 <=> (Refreshed(auth') \/ Consented(auth')))
            /\ (auth'.tokenWrites = 1 => tokenFile' = auth'.creds)
            /\ (auth'.tokenWrites = 0 => tokenFile' = tokenFile)
            /\ (auth'.outcome = "ok" =>
                   /\ tokenFile' = auth'.creds
                   /\ valid(tokenFile'[1]))
            /\ (auth'.outcome # "ok" =>
                   /\ auth'.creds = <<>>
                   /\ tokenFile' = tokenFile) ]_vars

\* C13 witness: a refresh renewed an expired credential and the token file
\* holds the renewed, returned credential.
C13_Witness ==
    /\ op \in AllOps
    /\ Refreshed(auth)
    /\ auth.tokenWrites = 1
    /\ tokenFile = auth.creds
    /\ tokenFile[1].refresh_token
    /\ valid(tokenFile[1])

\* C14: content retrieval for a workspace-native tag without an export
\* target fails with a declared error and fetches no bytes:
\* get_file_content returns an error payload after files().get alone, and
\* download_file reports the error, issues no export or download request,
\* writes no file and the tool exits with status 1.
C14_NativeWithoutTargetFails ==
    /\ (/\ ContentTagKnown
        /\ StartsWithGoogleApps(requests[1].mimeType)
        /\ requests[1].mimeType \notin DOMAIN EXPORT_MIME_TYPES) =>
           /\ Len(requests) = 1
           /\ "error" \in DOMAIN result
           /\ "content" \notin DOMAIN result
    /\ (/\ DownloadEntered
        /\ StartsWithGoogleApps(DownloadTag)
        /\ DownloadTag \notin DOMAIN DL_EXPORT_MIME_TYPES) =>
           /\ Len(requests) = 1
           /\ fileWrites = <<>>
           /\ exitCode = 1
           /\ escaped = ""
           /\ \E i \in 1..Len(stdout) :
                  stdout[i] = <<"Error: No export format available">>

\* download_file of the last gdrive_download run issued its media request
\* and entered the chunk loop.
LoopEntered == DownloadEntered /\ Len(requests) = 2

=============================================================================
